---------------------------- MODULE Spec2Model ----------------------------
(***************************************************************************)
(* Model of the local service orchestrator run_all.py: the artifact        *)
(* resolver ensure_model(), the three launchers, the supervision loop of   *)
(* main() and its shutdown block.  The control flow of main() is a program *)
(* counter pc; the environment (file system outcomes, probe results,       *)
(* managed processes exiting or ignoring signals, the operator's           *)
(* interrupt) is nondeterministic.                                         *)
(***************************************************************************)
EXTENDS Integers, Sequences, FiniteSets, TLC

(* ------------------------------ bounds --------------------------------- *)
\* modification times of the files found in models/ are 1..MaxMtime
MaxMtime == 2
\* file contents are 1..MaxContent; 0 is a truncated (partially written) file
MaxContent == 2
\* number of health probes the supervision loop issues in a run
MaxProbes == 6

(* --------------------------- program constants ------------------------- *)
\* run_all.py:150  if unhealthy_streak >= 3
Threshold == 3
\* run_all.py:136  start_streamlit(port=8501)
UiPort == 8501

Prod == "production.tar.gz"
Names == {Prod, "m1.tar.gz", "m2.tar.gz"}
\* the file `rasa train` writes into models/
Trained == "m1.tar.gz"
NoPath == "none"
Absent == [exists |-> FALSE, mtime |-> 0, content |-> 0]
FileStates ==
    {Absent} \cup [exists : {TRUE}, mtime : 1..MaxMtime, content : 1..MaxContent]
\* the time of a write made by this run: later than every file found at start
Now == MaxMtime + 1

Roles == {"actions", "core", "ui"}

VARIABLES
    pc,               \* position in main() / ensure_model()
    exc,              \* exception propagating out of the try body ("none" if none)
    fs,               \* models/ : file name -> [exists, mtime, content]
    latest,           \* ensure_model: local `latest`
    model_path,       \* main: local `model_path`
    scanned,          \* history: fs as seen by the last latest_model_tar() call
    copy,             \* history: outcome of the sync step of ensure_model
    procs,            \* every process spawned so far: [role, arg, alive]
    proc,             \* launcher local `proc` (0 before Popen returned)
    actions_proc,     \* main: local handles (0 = not bound in locals())
    core_proc,
    ui_proc,
    chosen_port,      \* start_streamlit: chosen_port
    opened_port,      \* port in the URL given to webbrowser.open (0 = none)
    unhealthy_streak, \* main: failure counter
    hist,             \* history: one record per probe [ok, restart]
    idx,              \* finally block: position in [ui, core, actions]
    ops,              \* history: process operations of the current restart / shutdown
    ready,            \* history: results of the readiness waits of the launch calls
                      \* of the startup or of the current restart
    resp,             \* is_url_ok: outcome of the request in flight ("none" outside)
    port_reported,    \* start_streamlit: what port_free(port) returned ("none" before)
    wpc,              \* wait_for_url: position ("w_idle" when it is not the unit run)
    wtimeout,         \* wait_for_url: timeout_sec, in clock ticks
    wnow,             \* wait_for_url: time.time(), in clock ticks
    wdeadline,        \* wait_for_url: local `deadline`
    wout,             \* history: the probes wait_for_url issued [at, ok]
    wres,             \* wait_for_url: return value (meaningful once wpc = "w_done")
    last,             \* actions.py: name of the action or validator that ran last
    slots,            \* actions.py: the tracker's slots
    orders,           \* actions.py: db.orders
    saved,            \* actions.py: the orders file [content, written by the last run]
    tickets,          \* actions.py: tickets created [by, issue, logged]
    events,           \* actions.py: the slots (and follow-up) the last run returned
    uttered,          \* actions.py: the message the last run dispatched
    slot_value,       \* actions.py: slot_value handed to a validator
    payload,          \* send_to_rasa: local of that name (the message sent)
    spc,              \* send_to_rasa: position ("s_idle" when it is not the unit run)
    attempt,          \* send_to_rasa: loop variable
    last_error,       \* send_to_rasa: local of that name
    posts,            \* history: the POSTs made [payload, outcome]
    sret              \* send_to_rasa: the returned list (meaningful once spc = "s_done")

fsVars == <<fs, latest, model_path, scanned, copy>>
procVars == <<procs, proc, actions_proc, core_proc, ui_proc, chosen_port, opened_port>>
loopVars == <<unhealthy_streak, hist>>
obsVars == <<ready, resp, port_reported>>
waitVars == <<wpc, wtimeout, wnow, wdeadline, wout, wres>>
mainVars == <<pc, exc, fsVars, procVars, loopVars, idx, ops, obsVars>>
chatVars == <<last, slots, orders, saved, tickets, events, uttered, slot_value>>
sendVars == <<payload, spc, attempt, last_error, posts, sret>>
appVars == <<chatVars, sendVars>>
orchVars == <<pc, exc, fsVars, procVars, loopVars, idx, ops, obsVars, waitVars>>
vars == <<pc, exc, fsVars, procVars, loopVars, idx, ops, obsVars, waitVars, appVars>>

(* ------------------------- artifact resolver --------------------------- *)
\* MODELS_DIR.glob("*.tar.gz"): production.tar.gz matches the pattern too
Candidates(f) ==
    {n \in Names : f[n].exists}

\* the files a descending sort by st_mtime can put first (ties: glob order)
Newest(f) ==
    {n \in Candidates(f) : \A m \in Candidates(f) : f[m].mtime <= f[n].mtime}

\* a guard that also copies when production.tar.gz is exactly as new
NeedsSyncNotNewer(f, l) ==
    (~f[Prod].exists) \/ (f[l].mtime >= f[Prod].mtime)

\* the guard of the sync step, line 43
NeedsSync(f, l) ==
    (~f[Prod].exists) \/ (f[l].mtime > f[Prod].mtime)

\* a sync that moves the newest artifact onto production.tar.gz
CopiedByMove(f, l) ==
    [f EXCEPT ![Prod] = [exists |-> TRUE, mtime |-> Now, content |-> f[l].content],
              ![l] = Absent]

\* prod.write_bytes(latest.read_bytes()) completed
Copied(f, l) ==
    [f EXCEPT ![Prod] = [exists |-> TRUE, mtime |-> Now, content |-> f[l].content]]

\* write_bytes opened (and truncated) the file and then failed
Truncated(f) ==
    [f EXCEPT ![Prod] = [exists |-> TRUE, mtime |-> Now, content |-> 0]]

\* line 49: return prod if prod.exists() else latest
ReturnPath(f, l) ==
    IF f[Prod].exists THEN Prod ELSE l

\* an exception that is swallowed, main() going on to the first launch
RaiseSwallowed(e) ==
    /\ pc' = "act_spawn"
    /\ exc' = "none"
    /\ idx' = 1
    /\ ops' = <<>>

\* an exception that leaves main() without running the shutdown block
RaiseNoCleanup(e) ==
    /\ pc' = "done"
    /\ exc' = e
    /\ idx' = 1
    /\ ops' = <<>>

\* an exception other than KeyboardInterrupt leaves the try body of main():
\* no except clause matches, the finally block runs with the exception pending
Raise(e) ==
    /\ pc' = "fin_pick"
    /\ exc' = e
    /\ idx' = 1
    /\ ops' = <<>>

\* line 32: latest = latest_model_tar()
EmScan ==
    /\ pc = "em_scan"
    /\ scanned' = fs
    /\ IF Candidates(fs) = {}
       THEN /\ latest' = NoPath
            /\ pc' = "em_train"
       ELSE /\ latest' \in Newest(fs)
            /\ pc' = "em_sync"
    /\ UNCHANGED <<exc, fs, model_path, copy, procVars, loopVars, idx, ops>>
    /\ UNCHANGED <<obsVars, waitVars>>
    /\ UNCHANGED appVars

\* line 36: subprocess.run([... "rasa", "train"], check=True), exit status 0;
\* the build may or may not have left an artifact in models/
EmTrainOk ==
    /\ pc = "em_train"
    /\ \/ fs' = [fs EXCEPT ![Trained] = [exists |-> TRUE, mtime |-> Now, content |-> 1]]
       \/ fs' = fs
    /\ pc' = "em_rescan"
    /\ UNCHANGED <<exc, latest, model_path, scanned, copy, procVars, loopVars, idx, ops>>
    /\ UNCHANGED <<obsVars, waitVars>>
    /\ UNCHANGED appVars

\* line 36: non-zero exit status raises CalledProcessError
EmTrainFail ==
    /\ pc = "em_train"
    /\ Raise("CalledProcessError")
    /\ UNCHANGED <<fsVars, procVars, loopVars>>
    /\ UNCHANGED <<obsVars, waitVars>>
    /\ UNCHANGED appVars

\* lines 37-39: second scan; RuntimeError if there is still no artifact
EmRescan ==
    /\ pc = "em_rescan"
    /\ scanned' = fs
    /\ IF Candidates(fs) = {}
       THEN /\ Raise("RuntimeError")
            /\ UNCHANGED latest
       ELSE /\ latest' \in Newest(fs)
            /\ pc' = "em_sync"
            /\ UNCHANGED <<exc, idx, ops>>
    /\ UNCHANGED <<fs, model_path, copy, procVars, loopVars>>
    /\ UNCHANGED <<obsVars, waitVars>>
    /\ UNCHANGED appVars

\* lines 42-47, guard false: production.tar.gz is present and not older
EmSyncSkip ==
    /\ pc = "em_sync"
    /\ ~NeedsSync(fs, latest)
    /\ copy' = "skipped"
    /\ pc' = "em_return"
    /\ UNCHANGED <<exc, fs, latest, model_path, scanned, procVars, loopVars, idx, ops>>
    /\ UNCHANGED <<obsVars, waitVars>>
    /\ UNCHANGED appVars

\* lines 42-44, guard true and the copy completes
EmSyncCopy ==
    /\ pc = "em_sync"
    /\ NeedsSync(fs, latest)
    /\ fs' = Copied(fs, latest)
    /\ copy' = "ok"
    /\ pc' = "em_return"
    /\ UNCHANGED <<exc, latest, model_path, scanned, procVars, loopVars, idx, ops>>
    /\ UNCHANGED <<obsVars, waitVars>>
    /\ UNCHANGED appVars

\* lines 42-47, guard true and the copy raises, swallowed by `except Exception`:
\* either nothing was written (read_bytes or the open failed) or the target
\* was opened, truncated and left incomplete
EmSyncFail ==
    /\ pc = "em_sync"
    /\ NeedsSync(fs, latest)
    /\ \/ fs' = fs
       \/ fs' = Truncated(fs)
    /\ copy' = "failed"
    /\ pc' = "em_return"
    /\ UNCHANGED <<exc, latest, model_path, scanned, procVars, loopVars, idx, ops>>
    /\ UNCHANGED <<obsVars, waitVars>>
    /\ UNCHANGED appVars

\* a main() that starts with the dialogue service
FirstLaunchCore ==
    "core_spawn"

\* lines 133-134: the statement after model_path = ensure_model() is the
\* call of start_actions_server
FirstLaunch ==
    "act_spawn"

\* line 49 and main line 133: model_path = ensure_model()
EmReturn ==
    /\ pc = "em_return"
    /\ model_path' = ReturnPath(fs, latest)
    /\ pc' = FirstLaunch
    /\ UNCHANGED <<exc, fs, latest, scanned, copy, procVars, loopVars, idx, ops>>
    /\ UNCHANGED <<obsVars, waitVars>>
    /\ UNCHANGED appVars

EnsureModel ==
    \/ EmScan
    \/ EmTrainOk
    \/ EmTrainFail
    \/ EmRescan
    \/ EmSyncSkip
    \/ EmSyncCopy
    \/ EmSyncFail
    \/ EmReturn

(* --------------------------- control positions ------------------------- *)
StartPcs ==
    {"em_scan", "em_train", "em_rescan", "em_sync", "em_return",
     "act_spawn", "act_wait", "core_spawn", "core_wait", "ui_spawn", "ui_open"}
LoopPcs ==
    {"loop_sleep", "probe", "probe_ret"}
RestartPcs ==
    {"restart_poll", "restart_term", "restart_wait", "restart_kill",
     "relaunch_spawn", "relaunch_wait", "reset"}
TryPcs ==
    StartPcs \cup LoopPcs \cup RestartPcs
FinPcs ==
    {"except_kbd", "fin_pick", "fin_term", "fin_wait", "fin_kill"}

(* ------------------------------ processes ------------------------------ *)
Handle(role) ==
    CASE role = "actions" -> actions_proc
      [] role = "core" -> core_proc
      [] role = "ui" -> ui_proc

Alive(p) ==
    p \in 1..Len(procs) /\ procs[p].alive

LiveOf(role) ==
    {p \in 1..Len(procs) : procs[p].role = role /\ procs[p].alive}

Exited(ps, p) ==
    [ps EXCEPT ![p].alive = FALSE]

\* subprocess.Popen(...) returned: a new child process, held in the local `proc`
Popen(role, arg) ==
    /\ procs' = Append(procs, [role |-> role, arg |-> arg, alive |-> TRUE])
    /\ proc' = Len(procs) + 1

\* a managed process exits on its own (crash, port conflict, killed from
\* outside) while the try body runs; an exit during the shutdown block is the
\* same to main() as an exit on the graceful signal
Crash ==
    /\ pc \in TryPcs
    /\ \E p \in 1..Len(procs) :
        /\ procs[p].alive
        /\ procs' = Exited(procs, p)
    /\ UNCHANGED <<pc, exc, fsVars, proc, actions_proc, core_proc, ui_proc,
                   chosen_port, opened_port, loopVars, idx, ops>>
    /\ UNCHANGED <<obsVars, waitVars>>
    /\ UNCHANGED appVars

(* ------------------------------ launchers ------------------------------ *)
\* a launcher that loses the handle it spawned
LauncherReturnNone(p) ==
    0

\* lines 84, 102, 128: return proc
LauncherReturn(p) ==
    p

\* a launcher that gives the handle up when the readiness wait timed out
ReadinessReturnStrict(ok, p) ==
    IF ok THEN LauncherReturn(p) ELSE 0

\* lines 79-84 and 97-102: ok = wait_for_url(...); the two branches only
\* print, and the handle is returned after either
ReadinessReturn(ok, p) ==
    LauncherReturn(p)

\* what the launcher printed after its readiness wait
Readiness(ok) ==
    IF ok THEN "ready" ELSE "timeout"

NoReadiness ==
    [r \in {"actions", "core"} |-> "none"]

\* lines 74-78: start_actions_server spawns the action service
ActSpawn ==
    /\ pc = "act_spawn"
    /\ Popen("actions", NoPath)
    /\ pc' = "act_wait"
    /\ UNCHANGED <<exc, fsVars, actions_proc, core_proc, ui_proc, chosen_port,
                   opened_port, loopVars, idx, ops>>
    /\ UNCHANGED <<obsVars, waitVars>>
    /\ UNCHANGED appVars

\* lines 79-84 and main line 134: the readiness wait ends (healthy, or timed
\* out with a warning), the launcher returns proc, main binds actions_proc
ActWait ==
    /\ pc = "act_wait"
    /\ \E ok \in BOOLEAN :
        /\ actions_proc' = ReadinessReturn(ok, proc)
        /\ ready' = [ready EXCEPT !["actions"] = Readiness(ok)]
    /\ pc' = "core_spawn"
    /\ UNCHANGED <<exc, fsVars, procs, proc, core_proc, ui_proc, chosen_port,
                   opened_port, loopVars, idx, ops>>
    /\ UNCHANGED <<resp, port_reported, waitVars>>
    /\ UNCHANGED appVars

\* lines 88-96 called from line 135: spawn the dialogue service on model_path
CoreSpawn ==
    /\ pc = "core_spawn"
    /\ Popen("core", model_path)
    /\ pc' = "core_wait"
    /\ UNCHANGED <<exc, fsVars, actions_proc, core_proc, ui_proc, chosen_port,
                   opened_port, loopVars, idx, ops>>
    /\ UNCHANGED <<obsVars, waitVars>>
    /\ UNCHANGED appVars

\* lines 97-102 and main line 135
CoreWait ==
    /\ pc = "core_wait"
    /\ \E ok \in BOOLEAN :
        /\ core_proc' = ReadinessReturn(ok, proc)
        /\ ready' = [ready EXCEPT !["core"] = Readiness(ok)]
    /\ pc' = "ui_spawn"
    /\ UNCHANGED <<exc, fsVars, procs, proc, actions_proc, ui_proc, chosen_port,
                   opened_port, loopVars, idx, ops>>
    /\ UNCHANGED <<resp, port_reported, waitVars>>
    /\ UNCHANGED appVars

\* what a GET can end in: a success response, a non-success response, no
\* answer within the timeout, a transport error
Responses ==
    {"ok", "non_success", "timeout", "transport_error"}

\* lines 105-110: any response means the port is taken, any exception that it is free
port_free(r) ==
    r \in {"timeout", "transport_error"}

\* a port choice that never moves off the default
ChosenPortDefault(port, free) ==
    port

\* line 114: chosen_port = port if port_free(port) else (port + 1)
ChosenPort(port, free) ==
    IF free THEN port ELSE port + 1

\* line 127: webbrowser.open(f"http://localhost:{chosen_port}/")
OpenedPort(cp) ==
    cp

\* lines 114-124: port_free answers, the UI process is spawned on chosen_port
UiSpawn ==
    /\ pc = "ui_spawn"
    /\ \E r \in Responses :
        /\ port_reported' = IF port_free(r) THEN "free" ELSE "occupied"
        /\ chosen_port' = ChosenPort(UiPort, port_free(r))
        /\ Popen("ui", chosen_port')
    /\ pc' = "ui_open"
    /\ UNCHANGED <<exc, fsVars, actions_proc, core_proc, ui_proc, opened_port,
                   loopVars, idx, ops>>
    /\ UNCHANGED <<ready, resp, waitVars>>
    /\ UNCHANGED appVars

\* lines 126-128 and main lines 136-144: sleep, open the browser, return proc,
\* bind ui_proc, print the banner, unhealthy_streak = 0
UiOpen ==
    /\ pc = "ui_open"
    /\ opened_port' = OpenedPort(chosen_port)
    /\ ui_proc' = LauncherReturn(proc)
    /\ unhealthy_streak' = 0
    /\ pc' = "loop_sleep"
    /\ UNCHANGED <<exc, fsVars, procs, proc, actions_proc, core_proc, chosen_port,
                   hist, idx, ops>>
    /\ UNCHANGED <<obsVars, waitVars>>
    /\ UNCHANGED appVars

\* Popen raises (the interpreter or module cannot be started): OSError leaves
\* the launcher and the try body
SpawnFail ==
    /\ pc \in {"act_spawn", "core_spawn", "ui_spawn", "relaunch_spawn"}
    /\ Raise("OSError")
    /\ UNCHANGED <<fsVars, procVars, loopVars>>
    /\ UNCHANGED <<obsVars, waitVars>>
    /\ UNCHANGED appVars

(* --------------------------- supervision loop -------------------------- *)
\* a counter that a successful probe does not reset
NextStreakNoReset(s, ok) ==
    IF ok THEN s ELSE s + 1

\* lines 149 and 164: the counter after a probe
NextStreak(s, ok) ==
    IF ok THEN 0 ELSE s + 1

\* a restart decided one failure late
RestartDueLate(s) ==
    s > Threshold

\* a restart policy that gives up after the first restart
RestartDueOnce(s) ==
    /\ s >= Threshold
    /\ Cardinality({p \in 1..Len(procs) : procs[p].role = "core"}) <= 1

\* line 150
RestartDue(s) ==
    s >= Threshold

\* a restart that always relaunches on the fixed-name artifact
RelaunchPathFixed(mp) ==
    Prod

\* line 161: the artifact handed to start_core_server on a restart
RelaunchPath(mp) ==
    mp

\* line 146: time.sleep(8.0)
LoopSleep ==
    /\ pc = "loop_sleep"
    /\ Len(hist) < MaxProbes
    /\ pc' = "probe"
    /\ ops' = <<>>
    /\ ready' = NoReadiness
    /\ UNCHANGED <<exc, fsVars, procVars, loopVars, idx>>
    /\ UNCHANGED <<resp, port_reported, waitVars>>
    /\ UNCHANGED appVars

\* an is_url_ok that takes any response for a healthy service
is_url_ok_any_response(r) ==
    r \in {"ok", "non_success"}

\* lines 65-70: return bool(r.ok); except Exception: return False
is_url_ok(r) ==
    r = "ok"

\* lines 67-68 called from line 148: the one GET of is_url_ok ends
ProbeRequest ==
    /\ pc = "probe"
    /\ resp' \in Responses
    /\ pc' = "probe_ret"
    /\ UNCHANGED <<exc, fsVars, procVars, loopVars, idx, ops>>
    /\ UNCHANGED <<ready, port_reported, waitVars>>
    /\ UNCHANGED appVars

\* lines 148, 163-164: the probe succeeds
ProbeOk ==
    /\ pc = "probe_ret"
    /\ is_url_ok(resp)
    /\ resp' = "none"
    /\ unhealthy_streak' = NextStreak(unhealthy_streak, TRUE)
    /\ hist' = Append(hist, [ok |-> TRUE, restart |-> FALSE])
    /\ pc' = "loop_sleep"
    /\ UNCHANGED <<exc, fsVars, procVars, idx, ops>>
    /\ UNCHANGED <<ready, port_reported, waitVars>>
    /\ UNCHANGED appVars

\* lines 148-151: the probe fails (error, timeout or non-success response)
ProbeFail ==
    /\ pc = "probe_ret"
    /\ ~is_url_ok(resp)
    /\ resp' = "none"
    /\ unhealthy_streak' = NextStreak(unhealthy_streak, FALSE)
    /\ hist' = Append(hist, [ok |-> FALSE, restart |-> RestartDue(unhealthy_streak')])
    /\ IF RestartDue(unhealthy_streak')
       THEN /\ pc' = "restart_poll"
            /\ ops' = <<>>
       ELSE /\ pc' = "loop_sleep"
            /\ UNCHANGED ops
    /\ UNCHANGED <<exc, fsVars, procVars, idx>>
    /\ UNCHANGED <<ready, port_reported, waitVars>>
    /\ UNCHANGED appVars

\* a restart that signals the old process without polling it
ShouldTerminateAlways(h) ==
    h # 0

\* a restart that never signals the old process
ShouldTerminateNever(h) ==
    FALSE

\* line 153: if core_proc and core_proc.poll() is None
ShouldTerminate(h) ==
    h # 0 /\ Alive(h)

\* a restart that works on the UI handle
RestartHandleUi ==
    ui_proc

\* lines 153-158: the handle the restart polls, terminates, waits for, kills
RestartHandle ==
    core_proc

\* line 153: the old process is signalled only if it has not exited yet
RestartPoll ==
    /\ pc = "restart_poll"
    /\ pc' = IF ShouldTerminate(RestartHandle) THEN "restart_term" ELSE "relaunch_spawn"
    /\ UNCHANGED <<exc, fsVars, procVars, loopVars, idx, ops>>
    /\ UNCHANGED <<obsVars, waitVars>>
    /\ UNCHANGED appVars

\* line 154: core_proc.terminate() delivers the graceful signal (a no-op on a
\* process that exited since the poll)
RestartTerm ==
    /\ pc = "restart_term"
    /\ ops' = Append(ops, <<"terminate", RestartHandle>>)
    /\ pc' = "restart_wait"
    /\ UNCHANGED <<exc, fsVars, procVars, loopVars, idx>>
    /\ UNCHANGED <<obsVars, waitVars>>
    /\ UNCHANGED appVars

\* lines 154, 159-160: terminate() raises, `except Exception: pass`
RestartTermRaise ==
    /\ pc = "restart_term"
    /\ Alive(RestartHandle)
    /\ ops' = Append(ops, <<"raise", RestartHandle>>)
    /\ pc' = "relaunch_spawn"
    /\ UNCHANGED <<exc, fsVars, procVars, loopVars, idx>>
    /\ UNCHANGED <<obsVars, waitVars>>
    /\ UNCHANGED appVars

\* line 156: core_proc.wait(timeout=5) returns, the process has exited
RestartWaitExit ==
    /\ pc = "restart_wait"
    /\ procs' = Exited(procs, RestartHandle)
    /\ ops' = Append(ops, <<"exited", RestartHandle>>)
    /\ pc' = "relaunch_spawn"
    /\ UNCHANGED <<exc, fsVars, proc, actions_proc, core_proc, ui_proc, chosen_port,
                   opened_port, loopVars, idx>>
    /\ UNCHANGED <<obsVars, waitVars>>
    /\ UNCHANGED appVars

\* lines 156-157: the process ignored the signal, TimeoutExpired
RestartWaitTimeout ==
    /\ pc = "restart_wait"
    /\ Alive(RestartHandle)
    /\ ops' = Append(ops, <<"timeout", RestartHandle>>)
    /\ pc' = "restart_kill"
    /\ UNCHANGED <<exc, fsVars, procVars, loopVars, idx>>
    /\ UNCHANGED <<obsVars, waitVars>>
    /\ UNCHANGED appVars

\* line 158: core_proc.kill()
RestartKill ==
    /\ pc = "restart_kill"
    /\ procs' = Exited(procs, RestartHandle)
    /\ ops' = Append(ops, <<"kill", RestartHandle>>)
    /\ pc' = "relaunch_spawn"
    /\ UNCHANGED <<exc, fsVars, proc, actions_proc, core_proc, ui_proc, chosen_port,
                   opened_port, loopVars, idx>>
    /\ UNCHANGED <<obsVars, waitVars>>
    /\ UNCHANGED appVars

\* line 161 into lines 88-96: start_core_server spawns the replacement
RelaunchSpawn ==
    /\ pc = "relaunch_spawn"
    /\ Popen("core", RelaunchPath(model_path))
    /\ ops' = Append(ops, <<"spawn", proc'>>)
    /\ pc' = "relaunch_wait"
    /\ UNCHANGED <<exc, fsVars, actions_proc, core_proc, ui_proc, chosen_port,
                   opened_port, loopVars, idx>>
    /\ UNCHANGED <<obsVars, waitVars>>
    /\ UNCHANGED appVars

\* lines 97-102 and the assignment of line 161
RelaunchWait ==
    /\ pc = "relaunch_wait"
    /\ \E ok \in BOOLEAN :
        /\ core_proc' = ReadinessReturn(ok, proc)
        /\ ready' = [ready EXCEPT !["core"] = Readiness(ok)]
    /\ pc' = "reset"
    /\ UNCHANGED <<exc, fsVars, procs, proc, actions_proc, ui_proc, chosen_port,
                   opened_port, loopVars, idx, ops>>
    /\ UNCHANGED <<resp, port_reported, waitVars>>
    /\ UNCHANGED appVars

\* line 162: unhealthy_streak = 0
Reset ==
    /\ pc = "reset"
    /\ unhealthy_streak' = 0
    /\ ops' = Append(ops, <<"reset", 0>>)
    /\ pc' = "loop_sleep"
    /\ UNCHANGED <<exc, fsVars, procVars, hist, idx>>
    /\ UNCHANGED <<obsVars, waitVars>>
    /\ UNCHANGED appVars

(* ------------------------ interrupt and shutdown ----------------------- *)
\* SIGINT: Python raises KeyboardInterrupt in the main thread at the statement
\* being executed; inside the try body control goes to line 166, the step in
\* flight is abandoned and the locals keep the values bound so far
Interrupt ==
    /\ pc \in TryPcs
    /\ pc' = "except_kbd"
    /\ exc' = "KeyboardInterrupt"
    /\ resp' = "none"
    /\ UNCHANGED <<fsVars, procVars, loopVars, idx, ops>>
    /\ UNCHANGED <<ready, port_reported, waitVars>>
    /\ UNCHANGED appVars

\* KeyboardInterrupt inside the except clause or the finally block: nothing
\* catches it, main() is left without finishing the cleanup
InterruptCleanup ==
    /\ pc \in FinPcs
    /\ pc' = "aborted"
    /\ exc' = "KeyboardInterrupt"
    /\ UNCHANGED <<fsVars, procVars, loopVars, idx, ops>>
    /\ UNCHANGED <<obsVars, waitVars>>
    /\ UNCHANGED appVars

\* lines 166-167: except KeyboardInterrupt: print("Shutting down...")
ExceptKbd ==
    /\ pc = "except_kbd"
    /\ pc' = "fin_pick"
    /\ exc' = "none"
    /\ idx' = 1
    /\ ops' = <<>>
    /\ UNCHANGED <<fsVars, procVars, loopVars>>
    /\ UNCHANGED <<obsVars, waitVars>>
    /\ UNCHANGED appVars

\* line 170: [locals().get("ui_proc"), locals().get("core_proc"), locals().get("actions_proc")]
ShutdownOrder ==
    <<"ui", "core", "actions">>

\* a shutdown that terminates the dialogue-service handle bound at startup
ShutdownHandleStale(role) ==
    IF role = "core" /\ core_proc # 0
    THEN CHOOSE p \in 1..Len(procs) :
            /\ procs[p].role = "core"
            /\ \A q \in 1..Len(procs) : procs[q].role = "core" => p <= q
    ELSE Handle(role)

\* the handle the finally block reads for a role: the current local
ShutdownHandle(role) ==
    Handle(role)

\* lines 170-171: next element; skipped when the local was never bound
FinPick ==
    /\ pc = "fin_pick"
    /\ idx <= Len(ShutdownOrder)
    /\ IF ShutdownHandle(ShutdownOrder[idx]) = 0
       THEN /\ idx' = idx + 1
            /\ pc' = "fin_pick"
       ELSE /\ pc' = "fin_term"
            /\ UNCHANGED idx
    /\ UNCHANGED <<exc, fsVars, procVars, loopVars, ops>>
    /\ UNCHANGED <<obsVars, waitVars>>
    /\ UNCHANGED appVars

\* line 173: proc.terminate()
FinTerm ==
    /\ pc = "fin_term"
    /\ ops' = Append(ops, <<"terminate", ShutdownHandle(ShutdownOrder[idx])>>)
    /\ pc' = "fin_wait"
    /\ UNCHANGED <<exc, fsVars, procVars, loopVars, idx>>
    /\ UNCHANGED <<obsVars, waitVars>>
    /\ UNCHANGED appVars

\* lines 173, 178-179: terminate() raises, `except Exception: pass`
FinTermRaise ==
    /\ pc = "fin_term"
    /\ Alive(ShutdownHandle(ShutdownOrder[idx]))
    /\ ops' = Append(ops, <<"raise", ShutdownHandle(ShutdownOrder[idx])>>)
    /\ idx' = idx + 1
    /\ pc' = "fin_pick"
    /\ UNCHANGED <<exc, fsVars, procVars, loopVars>>
    /\ UNCHANGED <<obsVars, waitVars>>
    /\ UNCHANGED appVars

\* line 175: proc.wait(timeout=5) returns
FinWaitExit ==
    /\ pc = "fin_wait"
    /\ procs' = Exited(procs, ShutdownHandle(ShutdownOrder[idx]))
    /\ ops' = Append(ops, <<"exited", ShutdownHandle(ShutdownOrder[idx])>>)
    /\ idx' = idx + 1
    /\ pc' = "fin_pick"
    /\ UNCHANGED <<exc, fsVars, proc, actions_proc, core_proc, ui_proc, chosen_port,
                   opened_port, loopVars>>
    /\ UNCHANGED <<obsVars, waitVars>>
    /\ UNCHANGED appVars

\* lines 175-176: TimeoutExpired
FinWaitTimeout ==
    /\ pc = "fin_wait"
    /\ Alive(ShutdownHandle(ShutdownOrder[idx]))
    /\ ops' = Append(ops, <<"timeout", ShutdownHandle(ShutdownOrder[idx])>>)
    /\ pc' = "fin_kill"
    /\ UNCHANGED <<exc, fsVars, procVars, loopVars, idx>>
    /\ UNCHANGED <<obsVars, waitVars>>
    /\ UNCHANGED appVars

\* line 177: proc.kill()
FinKill ==
    /\ pc = "fin_kill"
    /\ procs' = Exited(procs, ShutdownHandle(ShutdownOrder[idx]))
    /\ ops' = Append(ops, <<"kill", ShutdownHandle(ShutdownOrder[idx])>>)
    /\ idx' = idx + 1
    /\ pc' = "fin_pick"
    /\ UNCHANGED <<exc, fsVars, proc, actions_proc, core_proc, ui_proc, chosen_port,
                   opened_port, loopVars>>
    /\ UNCHANGED <<obsVars, waitVars>>
    /\ UNCHANGED appVars

\* line 180: print("[orchestrator] Done."); a pending exception then leaves main()
FinDone ==
    /\ pc = "fin_pick"
    /\ idx > Len(ShutdownOrder)
    /\ pc' = "done"
    /\ UNCHANGED <<exc, fsVars, procVars, loopVars, idx, ops>>
    /\ UNCHANGED <<obsVars, waitVars>>
    /\ UNCHANGED appVars

(* ======================= src/actions/actions.py ======================== *)
\* Python values that reach the actions as slot values: None, a string (its
\* characters), an int (its decimal digits, with a sign).
MaxLen == 6
Chars == {"0", "7", "x"}
DigitChars == {"0", "7"}

None == [kind |-> "none", chars |-> <<>>]

PyStrValue(cs) == [kind |-> "str", chars |-> cs]

PyIntValue(cs) == [kind |-> "int", chars |-> cs]

SeqsUpTo(S, n) ==
    UNION {[1..k -> S] : k \in 0..n}

\* decimal representations: no leading zero, an optional minus sign
Decimals ==
    LET nat == {d \in SeqsUpTo(DigitChars, MaxLen - 1) :
                    d # <<>> /\ (Len(d) > 1 => d[1] # "0")}
    IN  nat \cup {<<"-">> \o d : d \in nat \ {<<"0">>}}

SlotValues ==
    {None} \cup {PyStrValue(cs) : cs \in SeqsUpTo(Chars, MaxLen)}
           \cup {PyIntValue(cs) : cs \in Decimals}

\* str(v)
str(v) ==
    IF v.kind = "none" THEN <<"N", "o", "n", "e">> ELSE v.chars

\* bool(v): None, "" and 0 are false
bool(v) ==
    CASE v.kind = "none" -> FALSE
      [] v.kind = "str" -> v.chars # <<>>
      [] v.kind = "int" -> v.chars # <<"0">>

\* str.isdigit(): at least one character and every character a digit
isdigit(cs) ==
    cs # <<>> /\ \A i \in 1..Len(cs) : cs[i] \in DigitChars

\* the order store: the keys of the JSON object are strings
OrderA == <<"0", "0", "0", "0", "7">>
OrderB == <<"7", "7", "7", "7", "7">>
OrderKeys == {OrderA, OrderB}
NoReason == "<None>"
NotSpecified == "Not specified"
Reasons == {NoReason, "", "damaged"}
NoOrder == [present |-> FALSE, return_requested |-> FALSE, return_reason |-> NoReason]

\* lines 30-34: what _load_orders can return: each key absent, or an order
\* with or without an earlier return request
Stores ==
    [OrderKeys -> {NoOrder,
                   [present |-> TRUE, return_requested |-> FALSE, return_reason |-> NoReason],
                   [present |-> TRUE, return_requested |-> TRUE, return_reason |-> "damaged"]}]

\* line 40: order_id in self.orders
InStore(o, v) ==
    v.kind = "str" /\ v.chars \in OrderKeys /\ o[v.chars].present

\* lines 36-37 and the truth test of the result (an order is a non-empty dict)
get_order(o, v) ==
    InStore(o, v)

\* a mark_return that flags every order of the store
mark_return_all(o, v, reason) ==
    [k \in OrderKeys |->
        IF o[k].present
        THEN [present |-> TRUE, return_requested |-> TRUE, return_reason |-> reason]
        ELSE o[k]]

\* lines 40 and 43-45: what mark_return returns
mark_return_result(o, v) ==
    InStore(o, v)

\* lines 39-45: the store after mark_return (unchanged when it returns False)
mark_return(o, v, reason) ==
    IF InStore(o, v)
    THEN [o EXCEPT ![v.chars] = [present |-> TRUE, return_requested |-> TRUE,
                                 return_reason |-> reason]]
    ELSE o

\* line 158: return_reason or "Not specified"
ReasonOr(r) ==
    IF r \in {NoReason, ""} THEN NotSpecified ELSE r

\* a check that takes any five characters
WellFormedLengthOnly(v) ==
    bool(v) /\ Len(str(v)) = 5

\* lines 188 and 208: slot_value and len(str(slot_value)) == 5 and str(slot_value).isdigit()
WellFormed(v) ==
    bool(v) /\ Len(str(v)) = 5 /\ isdigit(str(v))

\* lines 188-192: the value validate_order_status_form puts into order_id
validate_order_status(v) ==
    IF WellFormed(v) THEN v ELSE None

\* lines 208-217: db.get_order(str(slot_value)) decides for a well-formed value
validate_return(o, v) ==
    IF WellFormed(v)
    THEN IF get_order(o, PyStrValue(str(v))) THEN v ELSE None
    ELSE None

\* the slots of a tracker at the start of a conversation (issue_id 0 is None;
\* fallback_count 0 is None or 0, which line 247 reads alike)
NoSlots ==
    [order_id |-> None, return_reason |-> NoReason, issue_id |-> 0, fallback_count |-> 0]

\* the action server is not the unit under run
ChatIdle ==
    /\ last = "none"
    /\ slots = NoSlots
    /\ orders = [k \in OrderKeys |-> NoOrder]
    /\ saved = [content |-> orders, written |-> FALSE]
    /\ tickets = <<>>
    /\ events = {}
    /\ uttered = "none"
    /\ slot_value = None

\* send_to_rasa is not the unit under run
NoReturn == [kind |-> "none", len |-> 0, text |-> "none"]

SendIdle ==
    /\ payload = "none"
    /\ spc = "s_idle"
    /\ attempt = 0
    /\ last_error = "none"
    /\ posts = <<>>
    /\ sret = NoReturn

AppIdle ==
    ChatIdle /\ SendIdle

\* the locals of main() before its first statement
InitLocals ==
    /\ exc = "none"
    /\ latest = NoPath
    /\ model_path = NoPath
    /\ scanned = fs
    /\ copy = "none"
    /\ procs = <<>>
    /\ proc = 0
    /\ actions_proc = 0
    /\ core_proc = 0
    /\ ui_proc = 0
    /\ chosen_port = 0
    /\ opened_port = 0
    /\ unhealthy_streak = 0
    /\ hist = <<>>
    /\ idx = 0
    /\ ops = <<>>
    /\ ready = NoReadiness
    /\ resp = "none"
    /\ port_reported = "none"

InitRest ==
    /\ pc = "em_scan"
    /\ InitLocals
    /\ AppIdle

\* wait_for_url is not the unit under run
WaitIdle ==
    /\ wpc = "w_idle"
    /\ wtimeout = 0
    /\ wnow = 0
    /\ wdeadline = 0
    /\ wout = <<>>
    /\ wres = FALSE

\* every content of models/ within the bounds
InitResolve ==
    /\ fs \in [Names -> FileStates]
    /\ InitRest
    /\ WaitIdle

\* ensure_model() alone, from every directory content
SpecResolve ==
    InitResolve /\ [][EnsureModel]_vars

\* lines 23-32: ensure_model() is called again after it returned; its local
\* `latest` is assigned afresh by the scan, the directory is as the previous
\* call left it, model_path still holds the previous result
EmCallAgain ==
    /\ pc = FirstLaunch
    /\ model_path # NoPath
    /\ pc' = "em_scan"
    /\ UNCHANGED <<exc, fsVars, procVars, loopVars, idx, ops>>
    /\ UNCHANGED <<obsVars, waitVars>>
    /\ UNCHANGED appVars

\* ensure_model() called repeatedly, nothing else touching models/
SpecResolveAgain ==
    InitResolve /\ [][EnsureModel \/ EmCallAgain]_vars

\* the directories main() is started on: empty (the build step runs), or
\* holding only an up-to-date production.tar.gz
MainFS ==
    {f \in [Names -> FileStates] :
        /\ \A n \in Names \ {Prod} : ~f[n].exists
        /\ f[Prod].exists => (f[Prod].mtime = 1 /\ f[Prod].content = 1)}

Init ==
    /\ fs \in MainFS
    /\ InitRest
    /\ WaitIdle

Next ==
    \/ EnsureModel
    \/ ActSpawn
    \/ ActWait
    \/ CoreSpawn
    \/ CoreWait
    \/ UiSpawn
    \/ UiOpen
    \/ SpawnFail
    \/ LoopSleep
    \/ ProbeRequest
    \/ ProbeOk
    \/ ProbeFail
    \/ RestartPoll
    \/ RestartTerm
    \/ RestartTermRaise
    \/ RestartWaitExit
    \/ RestartWaitTimeout
    \/ RestartKill
    \/ RelaunchSpawn
    \/ RelaunchWait
    \/ Reset
    \/ Crash
    \/ Interrupt
    \/ InterruptCleanup
    \/ ExceptKbd
    \/ FinPick
    \/ FinTerm
    \/ FinTermRaise
    \/ FinWaitExit
    \/ FinWaitTimeout
    \/ FinKill
    \/ FinDone

Spec ==
    Init /\ [][Next]_vars

(* ------------------- a dialogue service that stays down ---------------- *)
\* lines 67-70 called from line 148, against a service that is not healthy:
\* the GET ends in anything but a success response
ProbeRequestUnhealthy ==
    /\ ProbeRequest
    /\ ~is_url_ok(resp')

\* the steps main() takes by itself when nothing fails to spawn, the build
\* leaves an artifact or not, and no interrupt arrives
StepUnhealthy ==
    \/ EmScan
    \/ EmTrainOk
    \/ EmRescan
    \/ EmSyncSkip
    \/ EmSyncCopy
    \/ EmSyncFail
    \/ EmReturn
    \/ ActSpawn
    \/ ActWait
    \/ CoreSpawn
    \/ CoreWait
    \/ UiSpawn
    \/ UiOpen
    \/ LoopSleep
    \/ ProbeRequestUnhealthy
    \/ ProbeFail
    \/ RestartPoll
    \/ RestartTerm
    \/ RestartTermRaise
    \/ RestartWaitExit
    \/ RestartWaitTimeout
    \/ RestartKill
    \/ RelaunchSpawn
    \/ RelaunchWait
    \/ Reset

NextUnhealthy ==
    \/ StepUnhealthy
    \/ Crash

\* main() is a single thread: its next statement is always executed, every
\* blocking call in the loop has a timeout (sleep, GET timeout=3, wait(timeout=5))
SpecUnhealthy ==
    Init /\ [][NextUnhealthy]_vars /\ WF_vars(StepUnhealthy)

(* ----------------------------- wait_for_url ---------------------------- *)
\* Time is counted in clock ticks of one second. time.sleep(0.8) of line 61
\* is one tick; a GET with timeout=3 (line 57) ends 0..RequestTicks ticks
\* after it was issued.
SleepTicks == 1
RequestTicks == 3
MaxTimeout == 4

\* line 53: deadline = time.time() + timeout_sec
Deadline(now, timeout) ==
    now + timeout

\* a loop that never looks at the deadline
WithinWindowAlways(now, deadline) ==
    TRUE

\* a loop that still probes at the deadline itself
WithinWindowInclusive(now, deadline) ==
    now <= deadline

\* line 54: while time.time() < deadline
WithinWindow(now, deadline) ==
    now < deadline

\* lines 57-58: if r.ok (an exception of requests.get is swallowed, line 59)
ProbeSucceeded(r) ==
    r = "ok"

\* line 53
WaitEnter ==
    /\ wpc = "w_enter"
    /\ wdeadline' = Deadline(wnow, wtimeout)
    /\ wpc' = "w_check"
    /\ UNCHANGED <<wtimeout, wnow, wout, wres>>
    /\ UNCHANGED mainVars
    /\ UNCHANGED appVars

\* lines 54 and 62: the loop condition; return False once it fails
WaitCheck ==
    /\ wpc = "w_check"
    /\ IF WithinWindow(wnow, wdeadline)
       THEN /\ wpc' = "w_probe"
            /\ UNCHANGED wres
       ELSE /\ wpc' = "w_done"
            /\ wres' = FALSE
    /\ UNCHANGED <<wtimeout, wnow, wdeadline, wout>>
    /\ UNCHANGED mainVars
    /\ UNCHANGED appVars

\* lines 55-60: one GET, issued now, ending d ticks later with response r;
\* return True on r.ok, anything else falls through to the sleep
WaitProbe ==
    /\ wpc = "w_probe"
    /\ \E r \in Responses, d \in 0..RequestTicks :
        /\ wnow' = wnow + d
        /\ wout' = Append(wout, [at |-> wnow, ok |-> ProbeSucceeded(r)])
        /\ IF ProbeSucceeded(r)
           THEN /\ wpc' = "w_done"
                /\ wres' = TRUE
           ELSE /\ wpc' = "w_sleep"
                /\ UNCHANGED wres
    /\ UNCHANGED <<wtimeout, wdeadline>>
    /\ UNCHANGED mainVars
    /\ UNCHANGED appVars

\* line 61: time.sleep(0.8)
WaitSleep ==
    /\ wpc = "w_sleep"
    /\ wnow' = wnow + SleepTicks
    /\ wpc' = "w_check"
    /\ UNCHANGED <<wtimeout, wdeadline, wout, wres>>
    /\ UNCHANGED mainVars
    /\ UNCHANGED appVars

WaitNext ==
    \/ WaitEnter
    \/ WaitCheck
    \/ WaitProbe
    \/ WaitSleep

\* wait_for_url(url, timeout_sec) called on its own, for every timeout within
\* the bound; main() is not running
InitWait ==
    /\ pc = "wait_only"
    /\ fs = [n \in Names |-> Absent]
    /\ InitLocals
    /\ wpc = "w_enter"
    /\ wtimeout \in 0..MaxTimeout
    /\ wnow = 0
    /\ wdeadline = 0
    /\ wout = <<>>
    /\ wres = FALSE
    /\ AppIdle

SpecWait ==
    InitWait /\ [][WaitNext]_vars

(* --------------------------- the bounded waits ------------------------ *)
\* lines 166-180: the steps of the except clause and of the finally block
ShutdownStep ==
    \/ ExceptKbd
    \/ FinPick
    \/ FinTerm
    \/ FinTermRaise
    \/ FinWaitExit
    \/ FinWaitTimeout
    \/ FinKill
    \/ FinDone

\* a call of wait_for_url, or a run of main() that is interrupted or fails
\* before the first probe of the loop, with every behaviour of the processes
\* started so far
NextBounded ==
    \/ EnsureModel
    \/ ActSpawn
    \/ ActWait
    \/ CoreSpawn
    \/ CoreWait
    \/ UiSpawn
    \/ UiOpen
    \/ SpawnFail
    \/ Crash
    \/ Interrupt
    \/ InterruptCleanup
    \/ ShutdownStep
    \/ WaitNext

\* the thread that called wait_for_url or runs the shutdown block goes on
\* executing: sleep, the GET (timeout=3) and proc.wait(timeout=5) all return
SpecBounded ==
    /\ Init \/ InitWait
    /\ [][NextBounded]_vars
    /\ WF_vars(WaitNext)
    /\ WF_vars(ShutdownStep)

\* both entry points: a run of main(), or a call of wait_for_url
InitAll ==
    Init \/ InitWait

NextAll ==
    Next \/ WaitNext

SpecAll ==
    InitAll /\ [][NextAll]_vars


(* ------------------------ src/actions/actions.py ----------------------- *)
MaxTickets == 2
MaxFallbacks == 2

\* values an entity or a form hands to the actions of one conversation
UnknownId == <<"0", "7", "0", "7", "0">>
ChatValues ==
    {None, PyStrValue(OrderA), PyStrValue(OrderB), PyStrValue(UnknownId),
     PyIntValue(OrderB)}

Intents == {"affirm", "other"}

\* what a run leaves alone: the launcher and the chat client are other programs
ActionFrame ==
    UNCHANGED <<orchVars, sendVars>>

\* lines 47-49 are not reached: the run leaves db.orders and the file alone
NoSave ==
    /\ orders' = orders
    /\ saved' = [content |-> saved.content, written |-> FALSE]

\* lines 87-137: reads the order and utters, returns []
ActionCheckOrderStatus ==
    /\ pc = "actions_only"
    /\ last' = "action_check_order_status"
    /\ uttered' = IF ~bool(slots.order_id) THEN "need_id"
                  ELSE IF get_order(orders, slots.order_id) THEN "status"
                  ELSE "not_found"
    /\ events' = {}
    /\ UNCHANGED <<slots, tickets, slot_value>>
    /\ NoSave
    /\ ActionFrame

\* lines 145-172
ActionProcessReturn ==
    /\ pc = "actions_only"
    /\ last' = "action_process_return"
    /\ LET order_id == slots.order_id
           return_reason == slots.return_reason
       IN  IF ~bool(order_id)
           THEN /\ uttered' = "need_id"
                /\ events' = {}
                /\ slots' = slots
                /\ NoSave
           ELSE IF ~get_order(orders, order_id)
           THEN /\ uttered' = "not_found"
                /\ events' = {}
                /\ slots' = slots
                /\ NoSave
           ELSE /\ orders' = mark_return(orders, order_id, ReasonOr(return_reason))
                /\ saved' = [content |-> orders',
                             written |-> mark_return_result(orders, order_id)]
                /\ uttered' = IF mark_return_result(orders, order_id)
                              THEN "processed" ELSE "issue"
                /\ events' = {"order_id", "return_reason"}
                /\ slots' = [slots EXCEPT !.order_id = None, !.return_reason = NoReason]
    /\ UNCHANGED <<tickets, slot_value>>
    /\ ActionFrame

\* lines 180-192
ValidateOrderStatusForm(v) ==
    /\ pc \in {"actions_only", "unit_call"}
    /\ last' = "validate_order_status_form"
    /\ slots' = [slots EXCEPT !.order_id = validate_order_status(v)]
    /\ events' = {"order_id"}
    /\ uttered' = IF WellFormed(v) THEN "none" ELSE "format"
    /\ UNCHANGED <<tickets, slot_value>>
    /\ NoSave
    /\ ActionFrame

\* lines 200-217
ValidateReturnForm(v) ==
    /\ pc \in {"actions_only", "unit_call"}
    /\ last' = "validate_return_form"
    /\ slots' = [slots EXCEPT !.order_id = validate_return(orders, v)]
    /\ events' = {"order_id"}
    /\ uttered' = IF ~WellFormed(v) THEN "format"
                  ELSE IF get_order(orders, PyStrValue(str(v))) THEN "none"
                  ELSE "not_found"
    /\ UNCHANGED <<tickets, slot_value>>
    /\ NoSave
    /\ ActionFrame

\* lines 219-230: the reason the user gave, or "Not specified"
ValidateReturnReason ==
    /\ pc = "actions_only"
    /\ \E r \in {NoReason, "", "damaged"} :
        slots' = [slots EXCEPT !.return_reason = ReasonOr(r)]
    /\ last' = "validate_return_reason"
    /\ events' = {"return_reason"}
    /\ uttered' = "none"
    /\ UNCHANGED <<tickets, slot_value>>
    /\ NoSave
    /\ ActionFrame

\* a fallback that looks at the counter only
MayCreateTicketCounterOnly(s) ==
    ~(s.fallback_count >= 1)

\* line 253: the fallback creates a ticket when neither holds
MayCreateTicket(s) ==
    ~(s.issue_id # 0 \/ s.fallback_count >= 1)

\* lines 242-274; append_ticket_log (lines 55-79) gives up silently
ActionDefaultFallback ==
    /\ pc = "actions_only"
    /\ slots.fallback_count < MaxFallbacks
    /\ last' = "action_default_fallback"
    /\ \E latest_intent \in Intents, logged \in BOOLEAN :
        IF latest_intent = "affirm" /\ bool(slots.order_id)
        THEN /\ events' = {"followup", "fallback_count"}
             /\ slots' = [slots EXCEPT !.fallback_count = 0]
             /\ uttered' = "none"
             /\ tickets' = tickets
        ELSE IF ~MayCreateTicket(slots)
        THEN /\ events' = {"fallback_count"}
             /\ slots' = [slots EXCEPT !.fallback_count = slots.fallback_count + 1]
             /\ uttered' = "rephrase"
             /\ tickets' = tickets
        ELSE /\ Len(tickets) < MaxTickets
             /\ events' = {"issue_id", "problem_summary", "fallback_count"}
             /\ slots' = [slots EXCEPT !.issue_id = Len(tickets) + 1,
                                       !.fallback_count = 1]
             /\ uttered' = "ticket"
             /\ tickets' = Append(tickets, [by |-> "action_default_fallback",
                                            issue |-> Len(tickets) + 1,
                                            logged |-> logged])
    /\ UNCHANGED slot_value
    /\ NoSave
    /\ ActionFrame

\* lines 286-303
ActionStoreOrderId ==
    /\ pc = "actions_only"
    /\ last' = "action_store_order_id"
    /\ \E order_id_entity \in ChatValues :
        LET order_id == IF bool(order_id_entity) THEN order_id_entity
                        ELSE slots.order_id
        IN  IF bool(order_id)
            THEN /\ events' = {"order_id", "fallback_count"}
                 /\ slots' = [slots EXCEPT !.order_id = order_id, !.fallback_count = 0]
                 /\ uttered' = "recorded"
            ELSE /\ events' = {}
                 /\ slots' = slots
                 /\ uttered' = "no_id"
    /\ UNCHANGED <<tickets, slot_value>>
    /\ NoSave
    /\ ActionFrame

\* lines 315-340
ActionCreateTicket ==
    /\ pc = "actions_only"
    /\ Len(tickets) < MaxTickets
    /\ last' = "action_create_ticket"
    /\ \E logged \in BOOLEAN :
        tickets' = Append(tickets, [by |-> "action_create_ticket",
                                    issue |-> Len(tickets) + 1,
                                    logged |-> logged])
    /\ events' = {"issue_id", "problem_summary", "fallback_count"}
    /\ slots' = [slots EXCEPT !.issue_id = Len(tickets) + 1, !.fallback_count = 0]
    /\ uttered' = "ticket"
    /\ UNCHANGED slot_value
    /\ NoSave
    /\ ActionFrame

\* form validation of a value of the conversation
ValidateOrderStatusFormRun ==
    pc = "actions_only" /\ \E v \in ChatValues : ValidateOrderStatusForm(v)

ValidateReturnFormRun ==
    pc = "actions_only" /\ \E v \in ChatValues : ValidateReturnForm(v)

\* one conversation served by the action server, from every order store
InitActions ==
    /\ pc = "actions_only"
    /\ fs = [n \in Names |-> Absent]
    /\ InitLocals
    /\ WaitIdle
    /\ SendIdle
    /\ last = "none"
    /\ slots = NoSlots
    /\ orders \in Stores
    /\ saved = [content |-> orders, written |-> FALSE]
    /\ tickets = <<>>
    /\ events = {}
    /\ uttered = "none"
    /\ slot_value = None

NextActions ==
    \/ ActionCheckOrderStatus
    \/ ActionProcessReturn
    \/ ValidateOrderStatusFormRun
    \/ ValidateReturnFormRun
    \/ ValidateReturnReason
    \/ ActionDefaultFallback
    \/ ActionStoreOrderId
    \/ ActionCreateTicket

SpecActions ==
    InitActions /\ [][NextActions]_vars

\* lines 39-49: db.mark_return called on its own
MarkReturnCall ==
    /\ pc = "unit_call"
    /\ last' = "mark_return"
    /\ \E reason \in {"damaged", NotSpecified} :
        orders' = mark_return(orders, slot_value, reason)
    /\ saved' = [content |-> IF mark_return_result(orders, slot_value)
                             THEN orders' ELSE saved.content,
                 written |-> mark_return_result(orders, slot_value)]
    /\ events' = IF mark_return_result(orders, slot_value) THEN {"True"} ELSE {"False"}
    /\ uttered' = "none"
    /\ UNCHANGED <<slots, tickets, slot_value>>
    /\ ActionFrame

\* the two validators and mark_return applied to one value, for every value
\* within the bound and every order store
ValidateOrderStatusFormCall ==
    pc = "unit_call" /\ ValidateOrderStatusForm(slot_value)

ValidateReturnFormCall ==
    pc = "unit_call" /\ ValidateReturnForm(slot_value)

InitUnits ==
    /\ pc = "unit_call"
    /\ fs = [n \in Names |-> Absent]
    /\ InitLocals
    /\ WaitIdle
    /\ SendIdle
    /\ last = "none"
    /\ slots = NoSlots
    /\ orders \in Stores
    /\ saved = [content |-> orders, written |-> FALSE]
    /\ tickets = <<>>
    /\ events = {}
    /\ uttered = "none"
    /\ slot_value \in SlotValues

NextUnits ==
    \/ ValidateOrderStatusFormCall
    \/ ValidateReturnFormCall
    \/ MarkReturnCall

SpecUnits ==
    InitUnits /\ [][NextUnits]_vars


\* both ways into the order store: a conversation, or a call of one function
InitStore ==
    InitActions \/ InitUnits

NextStore ==
    NextActions \/ NextUnits

SpecStore ==
    InitStore /\ [][NextStore]_vars


(* ------------------- src/streamlit_app.py: send_to_rasa ---------------- *)
MaxReplies == 2
Attempts == 2
Messages == {"hi", "where is my order"}

\* what one requests.post, raise_for_status and resp.json can come to: a JSON
\* list of len messages, another JSON value, or an exception
Errors == {"ConnectionError", "Timeout", "HTTPError", "JSONDecodeError"}
PostOutcomes ==
    {[status |-> "list", len |-> n, what |-> "list"] : n \in 0..MaxReplies}
    \cup {[status |-> "other", len |-> 0, what |-> w] : w \in {"dict", "null"}}
    \cup {[status |-> "error", len |-> 0, what |-> e] : e \in Errors}

\* a loop that goes round once more
MoreAttemptsOneMore(a) ==
    a < Attempts + 1

\* line 35: for attempt in range(2)
MoreAttempts(a) ==
    a < Attempts

\* lines 40-42: the value returned for a reply
ReplyReturn(o) ==
    IF o.status = "list"
    THEN [kind |-> "reply", len |-> o.len, text |-> "none"]
    ELSE [kind |-> "wrapped", len |-> 1, text |-> o.what]

\* what a call of send_to_rasa leaves alone
SendFrame ==
    UNCHANGED <<orchVars, chatVars, payload>>

\* lines 35-44: one pass of the try block
SendPost ==
    /\ spc = "s_post"
    /\ \E o \in PostOutcomes :
        /\ posts' = Append(posts, [payload |-> payload, outcome |-> o])
        /\ IF o.status = "error"
           THEN /\ last_error' = o.what
                /\ spc' = "s_sleep"
                /\ sret' = sret
           ELSE /\ sret' = ReplyReturn(o)
                /\ spc' = "s_done"
                /\ last_error' = last_error
    /\ UNCHANGED attempt
    /\ SendFrame

\* line 45 and the loop header: time.sleep(0.6), then the next attempt if any
SendSleep ==
    /\ spc = "s_sleep"
    /\ attempt' = attempt + 1
    /\ spc' = IF MoreAttempts(attempt + 1) THEN "s_post" ELSE "s_failed"
    /\ UNCHANGED <<last_error, posts, sret>>
    /\ SendFrame

\* line 46
SendFailed ==
    /\ spc = "s_failed"
    /\ sret' = [kind |-> "failed", len |-> 1, text |-> last_error]
    /\ spc' = "s_done"
    /\ UNCHANGED <<attempt, last_error, posts>>
    /\ SendFrame

\* lines 32-34: one call of send_to_rasa, for every message
InitSend ==
    /\ pc = "send_only"
    /\ fs = [n \in Names |-> Absent]
    /\ InitLocals
    /\ WaitIdle
    /\ ChatIdle
    /\ payload \in Messages
    /\ spc = "s_post"
    /\ attempt = 0
    /\ last_error = "none"
    /\ posts = <<>>
    /\ sret = NoReturn

NextSend ==
    \/ SendPost
    \/ SendSleep
    \/ SendFailed

SpecSend ==
    InitSend /\ [][NextSend]_vars


(* ================================ claims =============================== *)
RunPcs ==
    LoopPcs \cup RestartPcs

CoreProcs ==
    {p \in 1..Len(procs) : procs[p].role = "core"}

\* the probe outcomes so far, as a sequence of booleans
Outcomes ==
    [i \in 1..Len(hist) |-> hist[i].ok]

RestartsAt ==
    {i \in 1..Len(hist) : hist[i].restart}

\* number of consecutive failed probes ending at probe i, counted since the
\* last successful probe or the last restart
RECURSIVE FailRun(_, _)
FailRun(h, i) ==
    IF h[i].ok THEN 0
    ELSE IF i = 1 \/ h[i - 1].ok \/ h[i - 1].restart THEN 1
    ELSE 1 + FailRun(h, i - 1)

\* C1: a restart is decided exactly at a probe that is the third consecutive
\* failure since the last success or restart; a successful probe zeroes the
\* counter; the restart steps run only after such a probe; and the sequence
\* fail,fail,success,fail,fail,fail gives exactly one restart, at the last fail.
C1_RestartAtThirdFailure ==
    /\ \A i \in 1..Len(hist) : hist[i].restart <=> (FailRun(hist, i) = 3)
    /\ (pc = "loop_sleep" /\ hist # <<>> /\ hist[Len(hist)].ok) => unhealthy_streak = 0
    /\ (pc \in LoopPcs /\ hist # <<>> /\ ~hist[Len(hist)].restart)
          => unhealthy_streak = FailRun(hist, Len(hist))
    /\ pc \in RestartPcs => (hist # <<>> /\ hist[Len(hist)].restart)
    /\ Cardinality(CoreProcs) <= 1 + Cardinality(RestartsAt)
    /\ Outcomes = <<FALSE, FALSE, TRUE, FALSE, FALSE, FALSE>> => RestartsAt = {6}

\* C1 witness: the test sequence has been probed and its single restart completed
C1_Witness ==
    /\ pc = "loop_sleep"
    /\ Outcomes = <<FALSE, FALSE, TRUE, FALSE, FALSE, FALSE>>
    /\ RestartsAt = {6}
    /\ Cardinality(CoreProcs) = 2
    /\ unhealthy_streak = 0

\* C2: after a shutdown issued by an interrupt, once main() has printed its
\* final message no process spawned by the orchestrator is still running.
C2_NoneRunningAfterShutdown ==
    (pc = "done" /\ exc = "none") => \A p \in 1..Len(procs) : ~procs[p].alive

\* C3: every launch of the dialogue service, at startup and on every restart,
\* is given the path ensure_model() returned, and that path never changes.
C3_SameArtifact ==
    /\ \A p \in CoreProcs : procs[p].arg = model_path /\ model_path # NoPath
    /\ model_path # NoPath => model_path = ReturnPath(fs, latest)

\* C3 witness: a restart relaunched the service on an artifact that is not the
\* fixed-name one
C3_Witness ==
    /\ pc = "loop_sleep"
    /\ Cardinality(CoreProcs) >= 2
    /\ model_path = Trained
    /\ \A p \in CoreProcs : procs[p].arg = Trained

\* C6: an interrupt never cuts short a probe or a restart step that is in
\* flight: shutdown begins only from the top of the loop.
C6_InterruptDeferred ==
    [][(pc \in ({"probe"} \cup RestartPcs)) => (pc' # "except_kbd")]_vars

\* C9: when the copy onto production.tar.gz fails, ensure_model() does not
\* fail and returns the freshly selected candidate.
C9_FallbackToLatest ==
    (copy = "failed" /\ pc \notin {"em_sync", "em_return"})
        => (pc = "act_spawn" /\ exc = "none" /\ model_path = latest)

\* C10: with at least one candidate, ensure_model() returns an existing path
\* that is a most recently modified candidate or production.tar.gz holding a
\* copy of such a candidate's bytes.
C10_NewestOrSyncedCopy ==
    pc = "act_spawn" =>
        /\ fs[model_path].exists
        /\ \E n \in Newest(scanned) :
              \/ model_path = n
              \/ model_path = Prod /\ fs[Prod].content = scanned[n].content

\* C10 without the failed copy of C9: the only violations are failed copies
C10_WhenCopyDidNotFail ==
    (pc = "act_spawn" /\ copy # "failed") =>
        /\ fs[model_path].exists
        /\ \E n \in Newest(scanned) :
              \/ model_path = n
              \/ model_path = Prod /\ fs[Prod].content = scanned[n].content

(* ----------------------- supervisor states (spec 4.4) ------------------- *)
\* the supervisor state a control position of main() belongs to: DEGRADED is
\* the point where the threshold has just been reached (lines 150-153), ABORTED
\* a cleanup cut short by a further interrupt
SupState(c) ==
    CASE c \in StartPcs -> "STARTING"
      [] c \in LoopPcs -> "RUNNING"
      [] c = "restart_poll" -> "DEGRADED"
      [] c \in RestartPcs \ {"restart_poll"} -> "RESTARTING"
      [] c \in FinPcs -> "SHUTTING_DOWN"
      [] c = "done" -> "STOPPED"
      [] c = "aborted" -> "ABORTED"

\* the edges of STARTING -> RUNNING -> (DEGRADED -> RESTARTING -> RUNNING)*
\*              -> SHUTTING_DOWN -> STOPPED
ChainEdges ==
    {<<"STARTING", "RUNNING">>, <<"RUNNING", "DEGRADED">>,
     <<"DEGRADED", "RESTARTING">>, <<"RESTARTING", "RUNNING">>,
     <<"RUNNING", "SHUTTING_DOWN">>, <<"SHUTTING_DOWN", "STOPPED">>}

\* the edges an interrupt or a fatal error adds
EarlyShutdownEdges ==
    {<<"STARTING", "SHUTTING_DOWN">>, <<"DEGRADED", "SHUTTING_DOWN">>,
     <<"RESTARTING", "SHUTTING_DOWN">>, <<"SHUTTING_DOWN", "ABORTED">>}

\* C4 (as stated): while the orchestrator runs, every role has exactly one
\* live process.
C4_ExactlyOneLive ==
    pc \in RunPcs => \A r \in Roles : Cardinality(LiveOf(r)) = 1

\* C4 (amended): while the orchestrator runs, every role has exactly one
\* tracked handle, bound to a process spawned for that role; the action and UI
\* services were spawned once, so at most one process of each is live (it may
\* have exited); the dialogue service may have no live process.
C4_ExactlyOneTracked ==
    pc \in RunPcs =>
        /\ \A r \in Roles :
              /\ Handle(r) \in 1..Len(procs)
              /\ procs[Handle(r)].role = r
        /\ \A r \in {"actions", "ui"} : LiveOf(r) \subseteq {Handle(r)}
        /\ \A p \in 1..Len(procs) :
              procs[p].role \in {"actions", "ui"} => p = Handle(procs[p].role)

\* C4 witness: the loop runs with the action service gone and the dialogue
\* service down between termination and relaunch
C4_Witness ==
    /\ pc = "relaunch_spawn"
    /\ LiveOf("actions") = {}
    /\ LiveOf("core") = {}
    /\ LiveOf("ui") = {ui_proc}
    /\ Len(ops) >= 2

\* C5 (as stated): the supervisor moves only along the chain; SHUTTING_DOWN is
\* entered only from RUNNING, RESTARTING is followed by RUNNING, STOPPED is
\* entered only from SHUTTING_DOWN and never left.
C5_ChainOnly ==
    [][(SupState(pc') # SupState(pc)) => (<<SupState(pc), SupState(pc')>> \in ChainEdges)]_vars

\* C5 (amended): the supervisor moves along the chain, except that an
\* interrupt or a fatal error enters SHUTTING_DOWN from STARTING, DEGRADED or
\* RESTARTING as well, and a further interrupt can end SHUTTING_DOWN without
\* reaching STOPPED; STOPPED is entered only from SHUTTING_DOWN and never left.
C5_ChainOrEarlyShutdown ==
    [][(SupState(pc') # SupState(pc))
          => (<<SupState(pc), SupState(pc')>> \in ChainEdges \cup EarlyShutdownEdges)]_vars

\* C5 witness: a run that went through a restart, back to RUNNING, and then
\* through the shutdown block to STOPPED
C5_Witness ==
    /\ SupState(pc) = "STOPPED"
    /\ RestartsAt # {}
    /\ Len(hist) > 3
    /\ exc = "none"

(* ------------------------ shutdown and restart order ------------------- *)
\* position of a process's role in the reverse of the start order
ReverseStartRank(p) ==
    CASE procs[p].role = "ui" -> 1
      [] procs[p].role = "core" -> 2
      [] procs[p].role = "actions" -> 3

\* graceful-then-forced policy on a log of operations: a wait follows the
\* graceful signal to the same process, a kill follows only a wait that timed
\* out, and a timed-out wait is followed by the kill
GracefulThenForced(log) ==
    \A i \in 1..Len(log) :
        /\ log[i][1] \in {"exited", "timeout"}
              => (i >= 2 /\ log[i - 1] = <<"terminate", log[i][2]>>)
        /\ log[i][1] = "kill" => (i >= 3 /\ log[i - 1] = <<"timeout", log[i][2]>>)
        /\ (log[i][1] = "timeout" /\ i < Len(log)) => log[i + 1] = <<"kill", log[i][2]>>

ShutdownPcs ==
    {"fin_pick", "fin_term", "fin_wait", "fin_kill", "done"}

SpawnsIn(log) ==
    {i \in 1..Len(log) : log[i][1] = "spawn"}

\* the dialogue-service process that was current before process n was spawned
PreviousCore(n) ==
    CHOOSE o \in CoreProcs : o < n /\ \A q \in CoreProcs : q < n => q <= o

BuildErrors ==
    {"CalledProcessError", "RuntimeError"}

\* C11: when the scan finds no artifact and the build step exits non-zero or
\* leaves no artifact, ensure_model() raises instead of returning a path:
\* with that error pending no path was returned, production.tar.gz was not
\* written and no process was launched; a path is returned only for an
\* artifact that exists, and a process is launched only after a path was
\* returned.
C11_BuildFailureIsFatal ==
    /\ exc \in BuildErrors =>
          /\ pc \in {"fin_pick", "done"}
          /\ Candidates(fs) = {}
          /\ model_path = NoPath
          /\ copy = "none"
          /\ ~fs[Prod].exists
          /\ procs = <<>>
          /\ ops = <<>>
    /\ pc \in {"em_sync", "em_return"} => Candidates(fs) # {}
    /\ model_path # NoPath => fs[model_path].exists
    /\ procs # <<>> => model_path # NoPath

\* the build ran and left nothing: main() ended on the RuntimeError
C11_Witness ==
    /\ pc = "done"
    /\ exc = "RuntimeError"
    /\ Candidates(fs) = {}
    /\ procs = <<>>

(* ------------------------------ C12 ----------------------------------- *)
\* the orchestrator state as it was when wait_for_url was called
MainUntouched ==
    /\ pc = "wait_only"
    /\ exc = "none"
    /\ fs = [n \in Names |-> Absent]
    /\ procs = <<>>
    /\ <<proc, actions_proc, core_proc, ui_proc>> = <<0, 0, 0, 0>>
    /\ model_path = NoPath
    /\ unhealthy_streak = 0
    /\ hist = <<>>
    /\ ops = <<>>

\* C12: wait_for_url returns true exactly when a probe issued before the
\* deadline observed success, and false otherwise: every probe is issued
\* strictly before the deadline, the first success ends the call, false is
\* returned only once the deadline has passed, a timeout of zero returns
\* false without a probe, and nothing of the orchestrator state is touched.
C12_TrueIffProbeInWindowSucceeded ==
    /\ \A i \in 1..Len(wout) : wout[i].at < wdeadline
    /\ \A i \in 1..(Len(wout) - 1) : ~wout[i].ok
    /\ wpc # "w_done" => ~wres
    /\ wpc = "w_done" =>
          /\ wres = (\E i \in 1..Len(wout) : wout[i].ok)
          /\ ~wres => wnow >= wdeadline
          /\ wtimeout = 0 => (~wres /\ wout = <<>>)
    /\ MainUntouched

\* two probes failed, the third was issued inside the window, answered with
\* success after the deadline, and the call returned true
C12_Witness ==
    /\ wpc = "w_done"
    /\ wres = TRUE
    /\ Len(wout) = 3
    /\ wnow > wdeadline

(* ------------------------------ C13 ----------------------------------- *)
FatalErrors ==
    BuildErrors \cup {"OSError"}

\* C13: a fatal condition (the build leaving no artifact, a launch or
\* relaunch failing to spawn) leaves the try body with the error pending,
\* the shutdown block runs, and when main() exits with the error every
\* process that had been started has been terminated.
C13_FatalExitCleansUp ==
    /\ exc \in FatalErrors => pc \in {"fin_pick", "fin_term", "fin_wait", "fin_kill", "done"}
    /\ (pc = "done" /\ exc \in FatalErrors) =>
          \A p \in 1..Len(procs) : ~procs[p].alive

(* ------------------------------ C14 ----------------------------------- *)
\* the process spawned last for a role
LastSpawned(role) ==
    CHOOSE p \in 1..Len(procs) :
        /\ procs[p].role = role
        /\ \A q \in 1..Len(procs) : procs[q].role = role => q <= p

\* C14: a readiness wait that times out is not fatal. The step that ends a
\* readiness wait, with either result, raises nothing, binds the handle of the
\* process just spawned and goes on to the next launch (or, in a restart, to
\* the counter reset); the supervision loop is entered with all three handles
\* bound, after each of the four combinations of readiness results.
C14_ReadinessTimeoutNotFatal ==
    /\ [](\A r \in {"actions", "core"} :
            ready[r] # "none" =>
                /\ Handle(r) # 0
                /\ Handle(r) = LastSpawned(r))
    /\ []((pc = "loop_sleep" /\ hist = <<>>) =>
            /\ ready["actions"] \in {"ready", "timeout"}
            /\ ready["core"] \in {"ready", "timeout"}
            /\ exc = "none"
            /\ \A r \in Roles : Handle(r) \in 1..Len(procs))
    /\ [][\A r \in {"actions", "core"} :
            (ready'[r] # ready[r] /\ ready'[r] # "none") =>
                /\ exc' = "none"
                /\ Handle(r)' = proc
                /\ pc' \in {"core_spawn", "ui_spawn", "reset"}]_vars

\* both readiness waits timed out at startup and the supervisor is running
\* with the three processes
C14_Witness ==
    /\ pc = "loop_sleep"
    /\ hist = <<>>
    /\ ready = [r \in {"actions", "core"} |-> "timeout"]
    /\ \A r \in Roles : Alive(Handle(r))

(* ------------------------------ C15 ----------------------------------- *)
\* C15: with a dialogue service that never becomes healthy and no interrupt,
\* the restarts go on without a cap and at a constant pace: a restart is
\* decided at every Threshold-th probe and at no other, the relaunch has been
\* made before the next probe is issued, the supervisor never leaves the loop
\* by itself, every restart that was decided runs to its reset, and the loop
\* goes on to the horizon MaxProbes with a restart at each third probe.
C15_RestartsWithoutCap ==
    /\ [](RestartsAt = {i \in 1..Len(hist) : i % Threshold = 0})
    /\ [](pc \in {"probe", "probe_ret"} =>
            Cardinality(CoreProcs) = 1 + Cardinality(RestartsAt))
    /\ [][(pc \in RunPcs) => (pc' \in RunPcs)]_vars
    /\ (pc = "restart_poll") ~> (pc = "reset")
    /\ (pc = "loop_sleep") ~>
          (/\ pc = "loop_sleep"
           /\ Len(hist) = MaxProbes
           /\ Cardinality(RestartsAt) = MaxProbes \div Threshold
           /\ Cardinality(CoreProcs) = 1 + (MaxProbes \div Threshold))

\* six probes failed, two restarts were made, three dialogue processes were
\* spawned in all
C15_Witness ==
    /\ pc = "loop_sleep"
    /\ Len(hist) = 2 * Threshold
    /\ \A i \in 1..Len(hist) : ~hist[i].ok
    /\ RestartsAt = {Threshold, 2 * Threshold}
    /\ Cardinality(CoreProcs) = 3

(* ------------------------------ C16 ----------------------------------- *)
\* C16: a failed probe of any kind never becomes an error. A call of
\* is_url_ok issues one request (a request is in flight only between the
\* loop's sleep and the call's return) and returns false for a non-success
\* response, a timeout and a transport error alike; in the loop such a return
\* raises nothing, adds one to unhealthy_streak and leaves files, processes
\* and handles alone. In wait_for_url a failed probe leads to the sleep of
\* the next iteration and to nothing else.
C16_ProbeFailureAbsorbed ==
    /\ []((resp # "none") <=> (pc = "probe_ret"))
    /\ [][(pc' = "probe_ret" /\ pc # "probe_ret") => (pc = "probe")]_vars
    /\ [][(pc' = "probe" /\ pc # "probe") => (pc = "loop_sleep")]_vars
    /\ [][(pc = "probe_ret" /\ pc' \notin {"probe_ret", "except_kbd"}) =>
            /\ Len(hist') = Len(hist) + 1
            /\ hist'[Len(hist')].ok = (resp = "ok")
            /\ resp # "ok" =>
                  /\ exc' = "none"
                  /\ pc' \in {"loop_sleep", "restart_poll"}
                  /\ unhealthy_streak' = unhealthy_streak + 1
                  /\ UNCHANGED <<fsVars, procVars, idx>>]_vars
    /\ [][(wpc = "w_probe" /\ wpc' # "w_probe") =>
            /\ Len(wout') = Len(wout) + 1
            /\ \/ wout'[Len(wout')].ok /\ wpc' = "w_done" /\ wres'
               \/ ~wout'[Len(wout')].ok /\ wpc' = "w_sleep" /\ ~wres'
            /\ UNCHANGED mainVars]_vars

\* two probes of the loop failed and were counted, nothing else happened
C16_Witness ==
    /\ pc = "loop_sleep"
    /\ Len(hist) = 2
    /\ ~hist[1].ok /\ ~hist[2].ok
    /\ unhealthy_streak = 2
    /\ exc = "none"
    /\ \A r \in Roles : Alive(Handle(r))

(* ------------------------------ C17 ----------------------------------- *)
ResolvePcs ==
    {"em_scan", "em_train", "em_rescan", "em_sync", "em_return"}

\* C17: the services are launched one after another, action service, then
\* dialogue service, then UI. The first three processes have these roles in
\* this order; the first is spawned only after ensure_model() returned the
\* artifact, the second only after start_actions_server returned (its
\* readiness wait over, actions_proc bound) and on that artifact, the third
\* only after start_core_server returned (core_proc bound).
C17_LaunchOrder ==
    /\ pc \in ResolvePcs => (procs = <<>> /\ model_path = NoPath)
    /\ Len(procs) >= 1 =>
          /\ procs[1].role = "actions"
          /\ model_path # NoPath
    /\ Len(procs) >= 2 =>
          /\ procs[2].role = "core"
          /\ procs[2].arg = model_path
          /\ actions_proc = 1
    /\ Len(procs) >= 3 =>
          /\ procs[3].role = "ui"
          /\ core_proc \in CoreProcs
    /\ pc \in {"act_spawn"} => Len(procs) = 0
    /\ pc \in {"act_wait", "core_spawn"} => Len(procs) = 1
    /\ pc = "core_spawn" => ready["actions"] # "none"
    /\ pc \in {"core_wait", "ui_spawn"} => Len(procs) = 2
    /\ pc = "core_wait" => core_proc = 0
    /\ pc = "ui_spawn" => ready["core"] # "none"
    /\ pc = "ui_open" => (Len(procs) = 3 /\ ui_proc = 0)

\* the UI was just spawned, third, with both earlier launch calls returned
C17_Witness ==
    /\ pc = "ui_open"
    /\ Len(procs) = 3
    /\ actions_proc = 1
    /\ core_proc = 2
    /\ ready["actions"] # "none" /\ ready["core"] # "none"

(* ------------------------------ C18 ----------------------------------- *)
ProcsOf(role) ==
    {p \in 1..Len(procs) : procs[p].role = role}

\* C18: the action service and the UI are started once and never supervised.
\* At most one process of each was ever spawned, exactly one once the loop
\* runs; no step the supervisor takes inside the loop, a restart included,
\* changes actions_proc or ui_proc or the state of those two processes, also
\* when they have exited; every operation of a restart has a dialogue process
\* as its target.
C18_OnlyDialogueSupervised ==
    /\ [](\A r \in {"actions", "ui"} :
            /\ Cardinality(ProcsOf(r)) <= 1
            /\ pc \in RunPcs => (ProcsOf(r) = {Handle(r)}))
    /\ [][(pc \in RunPcs /\ pc' \in RunPcs) =>
            /\ actions_proc' = actions_proc
            /\ ui_proc' = ui_proc
            /\ pc' # pc =>
                  \A p \in ProcsOf("actions") \cup ProcsOf("ui") : procs'[p] = procs[p]]_vars
    /\ [](pc \in RestartPcs =>
            \A i \in 1..Len(ops) :
                ops[i][1] = "reset" \/ ops[i][2] \in ProcsOf("core"))

\* the action service and the UI have both exited, the dialogue service was
\* restarted, and the two are still the processes started at startup
C18_Witness ==
    /\ pc = "loop_sleep"
    /\ Cardinality(ProcsOf("core")) = 2
    /\ Alive(core_proc)
    /\ actions_proc = 1 /\ ~Alive(actions_proc)
    /\ ui_proc = 3 /\ ~Alive(ui_proc)
    /\ Len(procs) = 4

(* ------------------------------ C19 ----------------------------------- *)
\* C19: start_streamlit launches the UI on the default port when port_free
\* reported it free and on the default port plus one when it reported it
\* occupied; the port handed to the UI process is the chosen port, and the
\* port in the URL opened in the browser is that same port.
C19_UiPortChoice ==
    /\ (port_reported = "none") <=> (chosen_port = 0)
    /\ port_reported = "free" => chosen_port = UiPort
    /\ port_reported = "occupied" => chosen_port = UiPort + 1
    /\ \A p \in ProcsOf("ui") : procs[p].arg = chosen_port
    /\ opened_port # 0 =>
          /\ opened_port = chosen_port
          /\ ui_proc \in ProcsOf("ui")
          /\ procs[ui_proc].arg = opened_port

\* the default port was reported occupied: the UI runs on the next port and
\* the browser was sent there
C19_Witness ==
    /\ port_reported = "occupied"
    /\ ui_proc # 0
    /\ procs[ui_proc].arg = UiPort + 1
    /\ opened_port = UiPort + 1

(* ------------------------------ C20 ----------------------------------- *)
\* C20: every wait is bounded. A call of wait_for_url returns, for every
\* timeout and every sequence of probe outcomes and durations: it issues at
\* most one probe per sleep interval of the window and returns no later than
\* one request and one sleep after the deadline. The shutdown block ends, for
\* every behaviour of the processes, those that ignore the graceful signal
\* included: it makes at most three operations per handle and reaches the
\* final message, unless a further interrupt cuts it short.
C20_WaitsAreBounded ==
    /\ (wpc = "w_enter") ~> (wpc = "w_done")
    /\ [](Len(wout) * SleepTicks <= wtimeout + (SleepTicks - 1))
    /\ [](wpc # "w_idle" => wnow <= wtimeout + RequestTicks + SleepTicks)
    /\ (pc \in FinPcs) ~> (pc \in {"done", "aborted"})
    /\ [](pc \in FinPcs \cup {"done"} => Len(ops) <= 3 * Len(ShutdownOrder))

\* all three processes ignored the graceful signal, were waited for and
\* killed, and the final message was printed
C20_Witness ==
    /\ pc = "done"
    /\ Len(ops) = 9
    /\ \A i \in {3, 6, 9} : ops[i][1] = "kill"
    /\ \A p \in 1..Len(procs) : ~procs[p].alive

(* ------------------------------ C21 ----------------------------------- *)
\* C21: ensure_model() deletes nothing and writes only production.tar.gz.
\* No step removes a file that exists; no step changes a file that exists
\* under another name; the steps of ensure_model() itself (all but the
\* external build, which runs only on an empty directory and may add one new
\* file) change no entry of the directory other than production.tar.gz.
C21_WritesOnlyProduction ==
    [][/\ \A n \in Names : fs[n].exists => fs'[n].exists
       /\ \A n \in Names \ {Prod} : fs[n].exists => fs'[n] = fs[n]
       /\ pc # "em_train" => (\A n \in Names \ {Prod} : fs'[n] = fs[n])
       /\ pc = "em_train" => Candidates(fs) = {}]_vars

\* production.tar.gz was rewritten from a newer candidate, and both other
\* candidates are still in the directory
C21_Witness ==
    /\ copy = "ok"
    /\ fs[Prod].mtime = Now
    /\ scanned[Prod].exists
    /\ \A n \in Names \ {Prod} : fs[n].exists /\ fs[n] = scanned[n]

(* ------------------------------ C22 ----------------------------------- *)
\* C22: at most one dialogue-service process is alive at any time, and when
\* a restart spawns the replacement the process tracked until then has
\* exited or been killed, also after a terminate() that raised.
C22_OldGoneBeforeReplacement ==
    /\ [](Cardinality(LiveOf("core")) <= 1)
    /\ [][(pc = "relaunch_spawn" /\ pc' = "relaunch_wait") => ~Alive(core_proc)]_vars

(* ------------------------------ C23 ----------------------------------- *)
\* C23: whenever the loop sleeps or probes, unhealthy_streak is below the
\* threshold (0, 1 or 2); it equals the threshold only while a restart is in
\* progress and never exceeds it; it is 0 right after a successful probe and
\* right after a restart.
C23_StreakBelowThreshold ==
    /\ unhealthy_streak \in 0..Threshold
    /\ pc \in LoopPcs => unhealthy_streak \in 0..(Threshold - 1)
    /\ pc \in RestartPcs \ {"reset"} => unhealthy_streak = Threshold
    /\ (pc = "loop_sleep" /\ hist # <<>>) =>
          /\ hist[Len(hist)].ok => unhealthy_streak = 0
          /\ hist[Len(hist)].restart => unhealthy_streak = 0
          /\ (~hist[Len(hist)].ok /\ ~hist[Len(hist)].restart) => unhealthy_streak \in 1..(Threshold - 1)

\* a success, then three failures and the restart: the counter is back at 0
C23_Witness ==
    /\ pc = "loop_sleep"
    /\ Len(hist) = 4
    /\ hist[1].ok
    /\ hist[4].restart
    /\ unhealthy_streak = 0

(* ------------------------------ C24 ----------------------------------- *)
\* a call of ensure_model() after an earlier one has returned
LaterCall ==
    pc \in ResolvePcs /\ model_path # NoPath

C25_RestartFromProbesOnly ==
    /\ [](pc \in LoopPcs => Cardinality(ProcsOf("core")) = 1 + Cardinality(RestartsAt))
    /\ [][(pc' = "restart_poll" /\ pc # "restart_poll") =>
            /\ pc = "probe_ret"
            /\ ~is_url_ok(resp)
            /\ unhealthy_streak = Threshold - 1]_vars
    /\ [][(pc = "probe_ret" /\ ~is_url_ok(resp) /\ unhealthy_streak = Threshold - 1
           /\ pc' \notin {"probe_ret", "except_kbd"}) =>
            pc' = "restart_poll"]_vars
    /\ [][(pc = "restart_poll" /\ pc' \notin {"restart_poll", "except_kbd"}) =>
            pc' = IF Alive(core_proc) THEN "restart_term" ELSE "relaunch_spawn"]_vars
    /\ [][(pc' = "restart_kill" /\ pc # "restart_kill") =>
            (pc = "restart_wait" /\ Alive(core_proc))]_vars

\* the dialogue process had exited by itself: after the third failed probe it
\* was replaced without a terminate or a kill
C25_Witness ==
    /\ pc = "loop_sleep"
    /\ ops = << <<"spawn", 4>>, <<"reset", 0>> >>
    /\ ~Alive(2)
    /\ core_proc = 4
    /\ Len(hist) = Threshold


(* ------------------------------- C26 ----------------------------------- *)
FallbackTickets ==
    {i \in 1..Len(tickets) : tickets[i].by = "action_default_fallback"}

FallbackRanAfterFirst ==
    /\ last' = "action_default_fallback"
    /\ (slots.issue_id # 0 \/ slots.fallback_count >= 1)

\* C26 as stated: the fallback action creates at most one ticket in a
\* conversation, and whenever it runs with issue_id set or fallback_count at
\* least 1 it asks the user to rephrase and increments fallback_count.
C26_RephraseOnlyAfterFirst ==
    /\ [](Cardinality(FallbackTickets) <= 1)
    /\ [][FallbackRanAfterFirst =>
            (/\ tickets' = tickets
             /\ uttered' = "rephrase"
             /\ slots'.fallback_count = slots.fallback_count + 1)]_vars

\* C26 (amended): the fallback action creates at most one ticket in a
\* conversation; whenever it runs with issue_id set or fallback_count at least
\* 1 it creates no ticket and leaves issue_id alone, and it either asks the
\* user to rephrase and increments fallback_count, or, on an affirm with an
\* order id in the slot, hands over to the order status check and sets
\* fallback_count to 0.
C26_OneFallbackTicket ==
    /\ [](Cardinality(FallbackTickets) <= 1)
    /\ [][FallbackRanAfterFirst =>
            (/\ tickets' = tickets
             /\ slots'.issue_id = slots.issue_id
             /\ \/ /\ uttered' = "rephrase"
                   /\ slots'.fallback_count = slots.fallback_count + 1
                \/ /\ bool(slots.order_id)
                   /\ "followup" \in events'
                   /\ slots'.fallback_count = 0)]_vars

\* the fallback ticket exists, fallback_count was reset to 0 by another action,
\* and the fallback ran again and asked to rephrase
C26_Witness ==
    /\ last = "action_default_fallback"
    /\ uttered = "rephrase"
    /\ slots.fallback_count = 1
    /\ Cardinality(FallbackTickets) = 1
    /\ \E i \in 1..Len(tickets) : tickets[i].by = "action_create_ticket"


(* ------------------------------- C27 ----------------------------------- *)
KnownOrder(v) ==
    v.kind = "str" /\ v.chars \in OrderKeys /\ orders[v.chars].present

GivenReason ==
    IF slots.return_reason \in {NoReason, ""} THEN NotSpecified
    ELSE slots.return_reason

StoreUntouched ==
    /\ orders' = orders
    /\ saved'.content = saved.content
    /\ ~saved'.written

\* C27: ActionProcessReturn changes state only on success. With order_id
\* missing or naming no known order it returns no slot events and leaves the
\* slots, the order store and the orders file as they were; with a known order
\* it marks that order return_requested with the given reason (or "Not
\* specified"), leaves every other order unchanged, saves the store and clears
\* order_id and return_reason. mark_return returns true exactly when the id is
\* in the store, and otherwise changes and writes nothing.
C27_ReturnOnlyOnSuccess ==
    [][/\ last' = "action_process_return" =>
            IF bool(slots.order_id) /\ KnownOrder(slots.order_id)
            THEN /\ orders' = [k \in OrderKeys |->
                        IF k = slots.order_id.chars
                        THEN [present |-> TRUE, return_requested |-> TRUE,
                              return_reason |-> GivenReason]
                        ELSE orders[k]]
                 /\ saved' = [content |-> orders', written |-> TRUE]
                 /\ events' = {"order_id", "return_reason"}
                 /\ slots' = [slots EXCEPT !.order_id = None,
                                           !.return_reason = NoReason]
            ELSE /\ events' = {}
                 /\ slots' = slots
                 /\ StoreUntouched
       /\ last' = "mark_return" =>
            /\ ("True" \in events') <=> KnownOrder(slot_value)
            /\ events' \in {{"True"}, {"False"}}
            /\ ~KnownOrder(slot_value) => StoreUntouched
            /\ KnownOrder(slot_value) =>
                    /\ orders'[slot_value.chars].return_requested
                    /\ saved' = [content |-> orders', written |-> TRUE]]_vars

\* a return was processed without a reason while the other order of the store
\* has no return request
C27_Witness ==
    /\ last = "action_process_return"
    /\ uttered = "processed"
    /\ saved.written
    /\ orders[OrderA] = [present |-> TRUE, return_requested |-> TRUE,
                         return_reason |-> NotSpecified]
    /\ orders[OrderB] = [present |-> TRUE, return_requested |-> FALSE,
                         return_reason |-> NoReason]
    /\ slots.order_id = None


(* ------------------------------- C29 ----------------------------------- *)
FiveDigits(v) ==
    /\ Len(str(v)) = 5
    /\ \A i \in 1..Len(str(v)) : str(v)[i] \in DigitChars

OrderExists(v) ==
    str(v) \in OrderKeys /\ orders[str(v)].present

\* C29: order-id validation accepts a slot value exactly when its string form
\* is five characters long and all digits. validate_order_status_form keeps
\* such a value and sets order_id to None for every other value;
\* validate_return_form keeps it only when, in addition, the order exists in
\* the order store, and sets order_id to None otherwise.
C29_AcceptsFiveDigits ==
    pc = "unit_call" =>
        /\ last = "validate_order_status_form" =>
                slots.order_id = IF FiveDigits(slot_value) THEN slot_value ELSE None
        /\ last = "validate_return_form" =>
                slots.order_id = IF FiveDigits(slot_value) /\ OrderExists(slot_value)
                                 THEN slot_value ELSE None

\* the return form kept an int whose string form names a stored order
C29_Witness ==
    /\ pc = "unit_call"
    /\ last = "validate_return_form"
    /\ slot_value.kind = "int"
    /\ slots.order_id = slot_value
    /\ uttered = "none"


(* ------------------------------- C28 ----------------------------------- *)
Failed(i) ==
    posts[i].outcome.status = "error"

\* C28: send_to_rasa makes at most two POSTs; every POST before the last one
\* failed, so it stops at the first that succeeds; it returns that reply list,
\* or a one-element list wrapping a reply that is not a list; it ends in a
\* return, never in an exception; and it returns the single "Request failed"
\* message, carrying the error of the second attempt, exactly when both
\* attempts failed.
C28_OneRetry ==
    /\ Len(posts) <= 2
    /\ \A i \in 1..Len(posts) : posts[i].payload = payload
    /\ \A i \in 1..(Len(posts) - 1) : Failed(i)
    /\ spc # "s_done" => \A i \in 1..Len(posts) : Failed(i)
    /\ spc = "s_done" =>
        /\ Len(posts) >= 1
        /\ sret.kind \in {"reply", "wrapped", "failed"}
        /\ sret.kind = "failed" <=> (Len(posts) = 2 /\ Failed(1) /\ Failed(2))
        /\ sret.kind = "failed" =>
                sret.len = 1 /\ sret.text = posts[Len(posts)].outcome.what
        /\ sret.kind = "reply" =>
                /\ posts[Len(posts)].outcome.status = "list"
                /\ sret.len = posts[Len(posts)].outcome.len
        /\ sret.kind = "wrapped" =>
                /\ posts[Len(posts)].outcome.status = "other"
                /\ sret.len = 1
                /\ sret.text = posts[Len(posts)].outcome.what

\* both attempts failed, with different errors, and the message carries the
\* second
C28_Witness ==
    /\ spc = "s_done"
    /\ Len(posts) = 2
    /\ posts[1].outcome.what = "Timeout"
    /\ posts[2].outcome.what = "HTTPError"
    /\ sret = [kind |-> "failed", len |-> 1, text |-> "HTTPError"]

=========================================================================
